---- MODULE Spec2Model ----
(***************************************************************************)
(* Model of the esw-gpio firmware examples.                                *)
(*                                                                         *)
(*   polling variants (src/main.c "siren", src/unnamed/part_001            *)
(*     "ambulance"): hp_loop configures the LED pin and creates led_one;   *)
(*     buzzer_loop configures buzzer, LED and button pins, creates         *)
(*     buzzer_tone and spins; buzzer_tone polls the button and plays the   *)
(*     reaction pattern (siren_sound / ambulance_sound).                   *)
(*                                                                         *)
(*   interrupt variant (src/unnamed/part_000): hp_loop configures three    *)
(*     LED pins and the button pin, creates led0_loop, led1_loop,          *)
(*     led2_loop and button_loop, and enables external interrupt 4;        *)
(*     GPIO_EVEN_IRQHandler posts a thread flag to button_loop.            *)
(*                                                                         *)
(* Time is counted in kernel ticks.  A statement takes no tick: ticks      *)
(* pass only when every thread is blocked (osDelay, osThreadFlagsWait)     *)
(* and no interrupt is being served.  Registers and thread flags are       *)
(* integers used as bit masks.                                             *)
(***************************************************************************)
EXTENDS Integers, Naturals, Sequences, FiniteSets, TLC

\* ------------------------------------------------------------------ bounds
MaxTick == 3000
MaxEdges == 2
MaxOther == 1
MaxEdgesFair == 1
MaxTickFair == 1500
TickFreq == 100

\* ------------------------------------------------------- program constants
ESWGPIO_LED0_DELAY == 333
ESWGPIO_LED1_DELAY == 1000
ESWGPIO_LED2_DELAY == 1500
ESWGPIO_HB_DELAY == 10
LED_ONE_DELAY_SIREN == 500
LED_ONE_DELAY_AMBULANCE == 300
TONE1_COUNT == 100
TONE1_DELAY == 2
TONE2_COUNT == 50
TONE2_DELAY == 4
TONE_GAP == 50
ESWGPIO_EXTI_INDEX == 4
ESWGPIO_EXTI_IF == 16
buttonExtIntThreadFlag == 1

\* pins, by port and pin number
ESWGPIO_LED0 == "PB11"
ESWGPIO_LED1 == "PB12"
ESWGPIO_LED2 == "PA5"
ESWGPIO_BUTTON == "PF4"
BUZZER == "PA0"
Pins == {"PB11", "PB12", "PA5", "PF4", "PA0"}

\* Another even-numbered external interrupt line that shares the
\* GPIO_EVEN vector with line 4 (its owner is outside this program).
OtherExtiIF == 2 ^ 6

\* Threads, named by their entry functions.
IrqThreads == {"hp_loop", "led0_loop", "led1_loop", "led2_loop", "button_loop"}
PollThreads == {"hp_loop", "led_one", "buzzer_loop", "buzzer_tone"}
Threads == IrqThreads \cup PollThreads
Togglers == {"led0_loop", "led1_loop", "led2_loop", "led_one"}

\* ------------------------------------------------------------ bit masks
RECURSIVE BitAnd(_, _)
BitAnd(a, b) ==
    IF a = 0 \/ b = 0 THEN 0
    ELSE (a % 2) * (b % 2) + 2 * BitAnd(a \div 2, b \div 2)

RECURSIVE BitOr(_, _)
BitOr(a, b) ==
    IF a = 0 THEN b
    ELSE IF b = 0 THEN a
    ELSE (IF (a % 2) + (b % 2) > 0 THEN 1 ELSE 0) + 2 * BitOr(a \div 2, b \div 2)

BitClear(a, m) == a - BitAnd(a, m)

\* 32-bit unsigned counter kept as two 16-bit halves
Half == 65536
U32Zero == [hi |-> 0, lo |-> 0]
U32Max == [hi |-> Half - 1, lo |-> Half - 1]
\* a counter that stops at its maximum instead of wrapping
U32Inc_saturating(c) ==
    IF c.lo = Half - 1
    THEN IF c.hi = Half - 1 THEN c ELSE [hi |-> c.hi + 1, lo |-> 0]
    ELSE [hi |-> c.hi, lo |-> c.lo + 1]
U32Inc(c) ==
    IF c.lo = Half - 1
    THEN [hi |-> (c.hi + 1) % Half, lo |-> 0]
    ELSE [hi |-> c.hi, lo |-> c.lo + 1]
U32Mod2(c) == c.lo % 2

VARIABLES
    tick,          \* kernel tick count
    pc,            \* position of every thread
    wake,          \* tick at which a thread blocked in osDelay resumes
    mode,          \* pin mode of every pin
    out,           \* output data register bit of every pin
    buttonLevel,   \* level on the button input line (1 released, 0 pressed)
    led_cnt,       \* led0_loop's counter
    GPIO_IF,       \* GPIO pending interrupt flags
    GPIO_IEN,      \* GPIO interrupt enable register
    EXTIFALL,      \* falling edge detection enable
    EXTIRISE,      \* rising edge detection enable
    nvicEnabled,   \* GPIO_EVEN_IRQn enabled in the NVIC
    isr_pc,        \* position of GPIO_EVEN_IRQHandler
    isr_pending,   \* its local variable pending
    buttonThreadId,
    thread_flags,  \* thread flags of the button thread
    heartbeats,    \* "Heartbeat" lines logged
    buttons,       \* "Button" lines logged
    trans,         \* transitions made by each LED thread
    lastTrans,     \* tick of the last transition of each LED thread
    posted,        \* handler posts since button_loop last cleared or consumed its flag
    staleIF,       \* pending bit 4 stems from an edge before the clear in gpio_external_interrupt_enable
    isr_stale,     \* the pending value read by the running handler stems from such an edge
    edgeBudget,    \* falling edges the environment may still produce
    otherBudget,   \* raises of the other line the environment may still produce
    variant,       \* the firmware that was built: "interrupt", "siren" or "ambulance"
    busy,          \* threads that spun without suspending since the last tick
    siren_i,       \* loop counter i of the reaction pattern
    justDone,      \* no tick has passed since the reaction pattern last returned
    heldLow,       \* the button line has been LOW ever since the pattern last returned
    invokedLevel,  \* level read by the poll that invoked the running pattern
    posts,         \* flag posts made by the handler
    dropped,       \* handler posts discarded by osThreadFlagsClear
    staleDropped,  \* gpio_external_interrupt_enable cleared a pending bit latched before it
    consumed,      \* handler posts consumed by the last return of osThreadFlagsWait
    droppedMid,    \* osThreadFlagsClear discarded a post made during a reaction
    ignored,       \* the handler has returned through its "not a button interrupt" branch
    main_pc,       \* position of main
    kernelState,   \* value of osKernelGetState()
    errLogged,     \* main has logged "!osKernelReady"
    toggles,       \* toggles of the buzzer pin made by the current or last pattern
    invokedAt,     \* tick at which the pattern was last invoked
    levelAtEntry,  \* level of the buzzer pin when the pattern was last invoked
    configured,    \* number of GPIO_PinModeSet calls made for each pin
    edges,         \* falling edges made on the button line
    postedIdle     \* an unconsumed post was made with hp_loop asleep and button_loop outside its reaction

vars == <<tick, pc, wake, mode, configured, out, buttonLevel, led_cnt, GPIO_IF, GPIO_IEN, EXTIFALL,
          EXTIRISE, nvicEnabled, isr_pc, isr_pending, buttonThreadId,
          thread_flags, heartbeats, buttons, trans, lastTrans, posted,
          staleIF, isr_stale, edgeBudget, otherBudget, variant, busy, siren_i,
          justDone, heldLow, invokedLevel, posts, dropped, staleDropped, consumed,
          droppedMid, ignored, main_pc, kernelState, errLogged,
          toggles, invokedAt, levelAtEntry, configured, postedIdle, edges>>

hwVars == <<GPIO_IF, GPIO_IEN, EXTIFALL, EXTIRISE, nvicEnabled>>
isrVars == <<isr_pc, isr_pending, isr_stale, ignored>>
envVars == <<buttonLevel, edgeBudget, otherBudget, edges>>
pinVars == <<mode, out, configured>>
ledVars == <<led_cnt, trans, lastTrans>>
flagVars == <<buttonThreadId, thread_flags, posted, posts, dropped, consumed, droppedMid,
              postedIdle>>
histVars == <<heartbeats, buttons, staleIF>>
patVars == <<toggles, invokedAt, levelAtEntry>>
pollVars == <<busy, siren_i, justDone, heldLow, invokedLevel, patVars>>
mainVars == <<main_pc, kernelState, errLogged>>
otherVars == <<variant, mainVars, staleDropped, pollVars>>

\* --------------------------------------------- platform and kernel calls
GPIO_PinModeSet(m, o, pin, md, dout) ==
    [mode |-> [m EXCEPT ![pin] = md], out |-> [o EXCEPT ![pin] = dout]]
GPIO_PinOutSet(o, pin) == [o EXCEPT ![pin] = 1]
GPIO_PinOutClear(o, pin) == [o EXCEPT ![pin] = 0]
GPIO_PinOutToggle(o, pin) == [o EXCEPT ![pin] = 1 - o[pin]]
GPIO_PinOutGet(o, pin) == o[pin]

\* a clear that wipes the whole pending register
GPIO_IntClear_all(reg, flags) == 0
GPIO_IntClear(reg, flags) == BitClear(reg, flags)
GPIO_IntEnable(reg, flags) == BitOr(reg, flags)
GPIO_IntDisable(reg, flags) == BitClear(reg, flags)
GPIO_IntGetEnabled(ifr, ien) == BitAnd(ifr, ien)

\* flags that count posts instead of recording them
osThreadFlagsSet_counting(tf, flags) == tf + flags
\* osThreadFlagsSet ORs the flags into the thread's flags.
osThreadFlagsSet(tf, flags) == BitOr(tf, flags)
\* a clear that clears nothing
osThreadFlagsClear_nothing(tf, flags) == tf
\* osThreadFlagsClear clears the flags of the calling thread.
osThreadFlagsClear(tf, flags) == BitClear(tf, flags)
\* osThreadFlagsWait(flags, osFlagsWaitAny, osWaitForever) returns once any of
\* the flags is set, and clears the flags it waited for.
osThreadFlagsWaitReady(tf, flags) == BitAnd(tf, flags) # 0
\* a wait that leaves the flags set (osFlagsNoClear)
osThreadFlagsWaitClear_noclear(tf, flags) == tf
osThreadFlagsWaitClear(tf, flags) == BitClear(tf, flags)

\* ------------------------------------------------------------ scheduling
GPIO_EVEN_MASK == 21845
IrqLine == BitAnd(GPIO_IntGetEnabled(GPIO_IF, GPIO_IEN), GPIO_EVEN_MASK) # 0
\* The handler preempts every thread: it is running, or about to be entered.
IrqActive == isr_pc # "idle" \/ (nvicEnabled /\ IrqLine)

\* Positions inside osDelay: the loops' delay, and the four delays of the
\* reaction pattern.
SleepPcs == {"sleep", "sleep_tone1", "sleep_gap1", "sleep_tone2", "sleep_gap2"}

\* GPIO_PinInGet: the level on the line of an input pin.
GPIO_PinInGet(pin) == buttonLevel
\* the test of the button level inverted
ButtonIsPressed_inverted(level) == level # 0
\* if (GPIO_PinInGet(gpioPortF, 4) == 0)
ButtonIsPressed(level) == level = 0

Blocked(t) ==
    \/ pc[t] = "none"
    \/ pc[t] \in SleepPcs /\ wake[t] > tick
    \/ pc[t] = "wait" /\ ~osThreadFlagsWaitReady(thread_flags, buttonExtIntThreadFlag)

\* A thread that goes round a loop without a suspension point: the empty loop
\* of buzzer_loop, and buzzer_tone while the button is not pressed.  It uses
\* the processor for as long as the condition lasts, so ticks pass meanwhile.
\* a scheduler that never takes the processor from a spinning thread
Spinning_holds_processor(t) == FALSE
Spinning(t) ==
    \/ pc[t] = "spin"
    \/ pc[t] = "poll" /\ ~ButtonIsPressed(GPIO_PinInGet(ESWGPIO_BUTTON))

\* Threads are scheduled once osKernelStart has started the kernel.
KernelRunning == kernelState = "osKernelRunning"
Runs(t, at) == KernelRunning /\ pc[t] = at /\ ~IrqActive
DelayOverAt(t, at) == KernelRunning /\ pc[t] = at /\ wake[t] <= tick /\ ~IrqActive
DelayOver(t) == DelayOverAt(t, "sleep")

osDelayAt(t, ticks, sleepPc) ==
    /\ pc' = [pc EXCEPT ![t] = sleepPc]
    /\ wake' = [wake EXCEPT ![t] = tick + ticks]
osDelay(t, ticks) == osDelayAt(t, ticks, "sleep")

Goto(t, next) == pc' = [pc EXCEPT ![t] = next]
\* A new thread starts at the first statement of its function.
ThreadEntry(t) ==
    CASE t = "led0_loop" -> "start"
      [] t = "led1_loop" -> "delay"
      [] t = "led2_loop" -> "delay"
      [] t = "button_loop" -> "clear"
      [] t = "led_one" -> "delay"
      [] t = "buzzer_tone" -> "poll"
      [] OTHER -> "start"
osThreadNew(t, next, entry) == pc' = [pc EXCEPT ![t] = next, ![entry] = ThreadEntry(entry)]

SatInc(n) == IF n > MaxEdges THEN n ELSE n + 1

\* ------------------------------------------------------------------ Init
\* main is about to call osKernelInitialize; no thread exists.  InitPc gives
\* the first statement of the threads that main creates.
Variants == {"interrupt", "siren", "ambulance"}

InitPc(v) ==
    [t \in Threads |->
        IF v = "interrupt"
        THEN IF t = "hp_loop" THEN "PinModeSet_LED0" ELSE "none"
        ELSE CASE t = "hp_loop" -> "poll_PinModeSet_LED"
               [] t = "buzzer_loop" -> "PinModeSet_BUZZER"
               [] OTHER -> "none"]

\* presses is the number of presses of the button that the environment may make.
InitEdges(presses) ==
    /\ variant \in Variants
    /\ tick = 0
    /\ pc = [t \in Threads |-> "none"]
    /\ main_pc = "osKernelInitialize"
    /\ kernelState = "osKernelInactive"
    /\ errLogged = FALSE
    /\ toggles = 0
    /\ invokedAt = 0
    /\ levelAtEntry = 0
    /\ wake = [t \in Threads |-> 0]
    /\ mode = [p \in Pins |-> "Disabled"]
    /\ out = [p \in Pins |-> 0]
    /\ configured = [p \in Pins |-> 0]
    /\ postedIdle = FALSE
    /\ edges = 0
    /\ buttonLevel = 1
    /\ led_cnt = U32Zero
    /\ GPIO_IF = 0
    /\ GPIO_IEN = 0
    /\ EXTIFALL = 0
    /\ EXTIRISE = 0
    /\ nvicEnabled = FALSE
    /\ isr_pc = "idle"
    /\ isr_pending = 0
    /\ buttonThreadId = "NULL"
    /\ thread_flags = 0
    /\ heartbeats = 0
    /\ buttons = 0
    /\ trans = [t \in Togglers |-> 0]
    /\ lastTrans = [t \in Togglers |-> 0]
    /\ posted = 0
    /\ staleIF = FALSE
    /\ isr_stale = FALSE
    /\ edgeBudget = presses
    /\ otherBudget = IF variant = "interrupt" THEN MaxOther ELSE 0
    /\ busy = {}
    /\ siren_i = 0
    /\ justDone = FALSE
    /\ heldLow = FALSE
    /\ invokedLevel = 1
    /\ posts = 0
    /\ dropped = 0
    /\ staleDropped = FALSE
    /\ consumed = 0
    /\ droppedMid = FALSE
    /\ ignored = FALSE

Init == InitEdges(MaxEdges)

\* ------------------------------------------------------------------ main
MainFrame ==
    UNCHANGED <<tick, wake, pinVars, hwVars, isrVars, envVars, ledVars, flagVars, histVars,
                variant, staleDropped, siren_i, justDone, heldLow, invokedLevel, patVars>>

\* osKernelInitialize() leaves the kernel ready, or fails and leaves it
\* inactive or in its error state.
KernelInitOutcomes == {"osKernelReady", "osKernelInactive", "osKernelError"}

main_osKernelInitialize ==
    /\ main_pc = "osKernelInitialize"
    /\ \E st \in KernelInitOutcomes : kernelState' = st
    /\ main_pc' = "osThreadNew_hp_loop"
    /\ UNCHANGED <<pc, errLogged, busy>>
    /\ MainFrame

main_osThreadNew_hp_loop ==
    /\ main_pc = "osThreadNew_hp_loop"
    /\ pc' = [pc EXCEPT !["hp_loop"] = InitPc(variant)["hp_loop"]]
    /\ main_pc' = IF variant = "interrupt" THEN "osKernelGetState" ELSE "osThreadNew_buzzer_loop"
    /\ UNCHANGED <<kernelState, errLogged, busy>>
    /\ MainFrame

main_osThreadNew_buzzer_loop ==
    /\ main_pc = "osThreadNew_buzzer_loop"
    /\ pc' = [pc EXCEPT !["buzzer_loop"] = InitPc(variant)["buzzer_loop"]]
    /\ main_pc' = "osKernelGetState"
    /\ UNCHANGED <<kernelState, errLogged, busy>>
    /\ MainFrame

\* a test that takes every kernel state for ready
KernelIsReady_always(state) == TRUE
\* if (osKernelReady == osKernelGetState())
KernelIsReady(state) == state = "osKernelReady"

\* osKernelStart() starts a ready kernel and does not return; on a kernel
\* that is not ready it returns an error and changes nothing.
osKernelStart(state) == IF state = "osKernelReady" THEN "osKernelRunning" ELSE state

main_osKernelStart ==
    /\ main_pc = "osKernelGetState"
    /\ KernelIsReady(kernelState)
    /\ kernelState' = osKernelStart(kernelState)
    /\ main_pc' = IF kernelState' = "osKernelRunning" THEN "started" ELSE "halt"
    /\ UNCHANGED <<pc, errLogged, busy>>
    /\ MainFrame

\* else err1("!osKernelReady");
main_err1 ==
    /\ main_pc = "osKernelGetState"
    /\ ~KernelIsReady(kernelState)
    /\ errLogged' = TRUE
    /\ main_pc' = "halt"
    /\ UNCHANGED <<pc, kernelState, busy>>
    /\ MainFrame

\* for(;;);
main_halt ==
    /\ main_pc = "halt"
    /\ busy' = busy \cup {"main"}
    /\ UNCHANGED <<pc, mainVars>>
    /\ MainFrame

\* --------------------------------------------------------------- hp_loop
PinModeSetStep(t, at, pin, md, dout, next) ==
    /\ Runs(t, at)
    /\ LET r == GPIO_PinModeSet(mode, out, pin, md, dout)
       IN  mode' = r.mode /\ out' = r.out
    /\ configured' = [configured EXCEPT ![pin] = @ + 1]
    /\ Goto(t, next)
    /\ UNCHANGED <<tick, wake, hwVars, isrVars, envVars, ledVars, flagVars, histVars, otherVars>>

hp_loop_PinModeSet_LED0 ==
    PinModeSetStep("hp_loop", "PinModeSet_LED0", ESWGPIO_LED0, "PushPull", 0, "PinModeSet_LED1")
hp_loop_PinModeSet_LED1 ==
    PinModeSetStep("hp_loop", "PinModeSet_LED1", ESWGPIO_LED1, "PushPull", 0, "PinModeSet_LED2")
\* the second pin configured once more in place of the third
hp_loop_PinModeSet_LED2_repeats_LED1 ==
    PinModeSetStep("hp_loop", "PinModeSet_LED2", ESWGPIO_LED1, "PushPull", 0, "osThreadNew_led0")
hp_loop_PinModeSet_LED2 ==
    PinModeSetStep("hp_loop", "PinModeSet_LED2", ESWGPIO_LED2, "PushPull", 0, "osThreadNew_led0")

osThreadNewStep(t, at, entry, next) ==
    /\ Runs(t, at)
    /\ osThreadNew(t, next, entry)
    /\ UNCHANGED <<tick, wake, pinVars, hwVars, isrVars, envVars, ledVars, flagVars, histVars, otherVars>>

hp_loop_osThreadNew_led0 ==
    osThreadNewStep("hp_loop", "osThreadNew_led0", "led0_loop", "osThreadNew_led1")
hp_loop_osThreadNew_led1 ==
    osThreadNewStep("hp_loop", "osThreadNew_led1", "led1_loop", "osThreadNew_led2")
hp_loop_osThreadNew_led2 ==
    osThreadNewStep("hp_loop", "osThreadNew_led2", "led2_loop", "init_PinModeSet")

\* gpio_external_interrupt_init: input with glitch filter and pull-up
gpio_external_interrupt_init_PinModeSet ==
    /\ Runs("hp_loop", "init_PinModeSet")
    /\ LET r == GPIO_PinModeSet(mode, out, ESWGPIO_BUTTON, "InputPullFilter", 1)
       IN  mode' = r.mode /\ out' = r.out
    /\ configured' = [configured EXCEPT ![ESWGPIO_BUTTON] = @ + 1]
    /\ Goto("hp_loop", "init_IntDisable")
    /\ UNCHANGED <<tick, wake, hwVars, isrVars, envVars, ledVars, flagVars, histVars, otherVars>>

gpio_external_interrupt_init_IntDisable ==
    /\ Runs("hp_loop", "init_IntDisable")
    /\ GPIO_IEN' = GPIO_IntDisable(GPIO_IEN, ESWGPIO_EXTI_IF)
    /\ Goto("hp_loop", "init_ExtIntConfig")
    /\ UNCHANGED <<tick, wake, pinVars, GPIO_IF, EXTIFALL, EXTIRISE, nvicEnabled,
                   isrVars, envVars, ledVars, flagVars, histVars, otherVars>>

\* GPIO_ExtIntConfig(port, pin, intNo, risingEdge, fallingEdge, enable) sets
\* the edge selection of line intNo, clears its pending flag and writes
\* enable to its interrupt enable bit.
GPIO_ExtIntConfig(intNo, risingEdge, fallingEdge, enable) ==
    LET bit == 2 ^ intNo
        put(reg, on) == IF on THEN BitOr(reg, bit) ELSE BitClear(reg, bit)
    IN  /\ EXTIRISE' = put(EXTIRISE, risingEdge)
        /\ EXTIFALL' = put(EXTIFALL, fallingEdge)
        /\ GPIO_IF' = BitClear(GPIO_IF, bit)
        /\ GPIO_IEN' = put(GPIO_IEN, enable)

\* both edges selected in place of the falling edge alone
gpio_external_interrupt_init_ExtIntConfig_both_edges ==
    /\ Runs("hp_loop", "init_ExtIntConfig")
    /\ GPIO_ExtIntConfig(ESWGPIO_EXTI_INDEX, TRUE, TRUE, FALSE)
    /\ staleIF' = FALSE
    /\ Goto("hp_loop", "osThreadNew_button")
    /\ UNCHANGED <<tick, wake, pinVars, nvicEnabled, isrVars, envVars, ledVars,
                   flagVars, heartbeats, buttons, otherVars>>

gpio_external_interrupt_init_ExtIntConfig ==
    /\ Runs("hp_loop", "init_ExtIntConfig")
    /\ GPIO_ExtIntConfig(ESWGPIO_EXTI_INDEX, FALSE, TRUE, FALSE)
    /\ staleIF' = FALSE
    /\ Goto("hp_loop", "osThreadNew_button")
    /\ UNCHANGED <<tick, wake, pinVars, nvicEnabled, isrVars, envVars, ledVars,
                   flagVars, heartbeats, buttons, otherVars>>

\* the thread is created but its id is not stored in buttonThreadId
hp_loop_osThreadNew_button_id_dropped ==
    /\ Runs("hp_loop", "osThreadNew_button")
    /\ osThreadNew("hp_loop", "enable_IntClear", "button_loop")
    /\ UNCHANGED <<tick, wake, pinVars, hwVars, isrVars, envVars, ledVars, flagVars, histVars,
                   otherVars>>

hp_loop_osThreadNew_button ==
    /\ Runs("hp_loop", "osThreadNew_button")
    /\ osThreadNew("hp_loop", "enable_IntClear", "button_loop")
    /\ buttonThreadId' = "button_loop"
    /\ UNCHANGED <<tick, wake, pinVars, hwVars, isrVars, envVars, ledVars,
                   thread_flags, posted, posts, dropped, consumed, droppedMid, postedIdle,
                   histVars, otherVars>>

\* gpio_external_interrupt_enable without its GPIO_IntClear
gpio_external_interrupt_enable_IntClear_missing ==
    /\ Runs("hp_loop", "enable_IntClear")
    /\ Goto("hp_loop", "enable_NVIC_EnableIRQ")
    /\ UNCHANGED <<tick, wake, pinVars, hwVars, isrVars, envVars, ledVars, flagVars,
                   histVars, otherVars>>

gpio_external_interrupt_enable_IntClear ==
    /\ Runs("hp_loop", "enable_IntClear")
    /\ GPIO_IF' = GPIO_IntClear(GPIO_IF, ESWGPIO_EXTI_IF)
    /\ staleIF' = FALSE
    /\ staleDropped' = (staleDropped \/ staleIF)
    /\ Goto("hp_loop", "enable_NVIC_EnableIRQ")
    /\ UNCHANGED <<tick, wake, pinVars, GPIO_IEN, EXTIFALL, EXTIRISE, nvicEnabled,
                   isrVars, envVars, ledVars, flagVars, heartbeats, buttons, variant,
                   mainVars, pollVars>>

gpio_external_interrupt_enable_NVIC_EnableIRQ ==
    /\ Runs("hp_loop", "enable_NVIC_EnableIRQ")
    /\ nvicEnabled' = TRUE
    /\ Goto("hp_loop", "enable_IntEnable")
    /\ UNCHANGED <<tick, wake, pinVars, GPIO_IF, GPIO_IEN, EXTIFALL, EXTIRISE,
                   isrVars, envVars, ledVars, flagVars, histVars, otherVars>>

gpio_external_interrupt_enable_IntEnable ==
    /\ Runs("hp_loop", "enable_IntEnable")
    /\ GPIO_IEN' = GPIO_IntEnable(GPIO_IEN, ESWGPIO_EXTI_IF)
    /\ Goto("hp_loop", "osDelay")
    /\ UNCHANGED <<tick, wake, pinVars, GPIO_IF, EXTIFALL, EXTIRISE, nvicEnabled,
                   isrVars, envVars, ledVars, flagVars, histVars, otherVars>>

hp_loop_osDelay ==
    /\ Runs("hp_loop", "osDelay")
    /\ osDelay("hp_loop", ESWGPIO_HB_DELAY * TickFreq)
    /\ UNCHANGED <<tick, pinVars, hwVars, isrVars, envVars, ledVars, flagVars, histVars, otherVars>>

hp_loop_Heartbeat ==
    /\ DelayOver("hp_loop")
    /\ heartbeats' = heartbeats + 1
    /\ Goto("hp_loop", "osDelay")
    /\ UNCHANGED <<tick, wake, pinVars, hwVars, isrVars, envVars, ledVars, flagVars,
                   buttons, staleIF, otherVars>>

\* ------------------------------------------------------------ LED threads
led0_loop_start ==
    /\ Runs("led0_loop", "start")
    /\ led_cnt' = U32Zero
    /\ Goto("led0_loop", "delay")
    /\ UNCHANGED <<tick, wake, pinVars, hwVars, isrVars, envVars, trans, lastTrans,
                   flagVars, histVars, otherVars>>

led_osDelay(t, ticks) ==
    /\ Runs(t, "delay")
    /\ osDelay(t, ticks)
    /\ UNCHANGED <<tick, pinVars, hwVars, isrVars, envVars, ledVars, flagVars, histVars, otherVars>>

led0_loop_osDelay == led_osDelay("led0_loop", ESWGPIO_LED0_DELAY)
led1_loop_osDelay == led_osDelay("led1_loop", ESWGPIO_LED1_DELAY)
led2_loop_osDelay == led_osDelay("led2_loop", ESWGPIO_LED2_DELAY)

Transition(t) ==
    /\ trans' = [trans EXCEPT ![t] = @ + 1]
    /\ lastTrans' = [lastTrans EXCEPT ![t] = tick]
    /\ Goto(t, "delay")

\* if(led_cnt%2) clear, else set
led0_drive(o, cnt) ==
    IF U32Mod2(cnt) # 0
    THEN GPIO_PinOutClear(o, ESWGPIO_LED0)
    ELSE GPIO_PinOutSet(o, ESWGPIO_LED0)

led0_loop_transition ==
    /\ DelayOver("led0_loop")
    /\ out' = led0_drive(out, led_cnt)
    /\ led_cnt' = U32Inc(led_cnt)
    /\ Transition("led0_loop")
    /\ UNCHANGED <<tick, wake, mode, configured, hwVars, isrVars, envVars, flagVars, histVars, otherVars>>

\* GPIO_PinOutSet in place of GPIO_PinOutToggle
led1_drive_set(o) == GPIO_PinOutSet(o, ESWGPIO_LED1)
\* the pin of led0_loop in place of its own
led1_drive_wrong_pin(o) == GPIO_PinOutToggle(o, ESWGPIO_LED0)
led1_drive(o) == GPIO_PinOutToggle(o, ESWGPIO_LED1)

led1_loop_transition ==
    /\ DelayOver("led1_loop")
    /\ out' = led1_drive(out)
    /\ Transition("led1_loop")
    /\ UNCHANGED <<tick, wake, mode, configured, led_cnt, hwVars, isrVars, envVars, flagVars, histVars, otherVars>>

\* if(GPIO_PinOutGet(..)) GPIO_PinOutSet(..); else GPIO_PinOutClear(..);
led2_drive(o) ==
    IF GPIO_PinOutGet(o, ESWGPIO_LED2) # 0
    THEN GPIO_PinOutSet(o, ESWGPIO_LED2)
    ELSE GPIO_PinOutClear(o, ESWGPIO_LED2)

led2_loop_transition ==
    /\ DelayOver("led2_loop")
    /\ out' = led2_drive(out)
    /\ Transition("led2_loop")
    /\ UNCHANGED <<tick, wake, mode, configured, led_cnt, hwVars, isrVars, envVars, flagVars, histVars, otherVars>>

\* ----------------------------------------------------------- button_loop
button_loop_osThreadFlagsClear ==
    /\ Runs("button_loop", "clear")
    /\ thread_flags' = osThreadFlagsClear(thread_flags, buttonExtIntThreadFlag)
    /\ posted' = 0
    /\ dropped' = IF dropped + posted > MaxEdges THEN MaxEdges + 1 ELSE dropped + posted
    /\ droppedMid' = (droppedMid \/ (posted > 0 /\ buttons > 0))
    /\ postedIdle' = FALSE
    /\ Goto("button_loop", "wait")
    /\ UNCHANGED <<tick, wake, pinVars, hwVars, isrVars, envVars, ledVars,
                   buttonThreadId, posts, consumed, histVars, otherVars>>

button_loop_osThreadFlagsWait ==
    /\ Runs("button_loop", "wait")
    /\ osThreadFlagsWaitReady(thread_flags, buttonExtIntThreadFlag)
    /\ thread_flags' = osThreadFlagsWaitClear(thread_flags, buttonExtIntThreadFlag)
    /\ posted' = 0
    /\ consumed' = posted
    /\ postedIdle' = FALSE
    /\ Goto("button_loop", "info")
    /\ UNCHANGED <<tick, wake, pinVars, hwVars, isrVars, envVars, ledVars,
                   buttonThreadId, posts, dropped, droppedMid, histVars, otherVars>>

button_loop_info ==
    /\ Runs("button_loop", "info")
    /\ buttons' = buttons + 1
    /\ Goto("button_loop", "clear")
    /\ UNCHANGED <<tick, wake, pinVars, hwVars, isrVars, envVars, ledVars, flagVars,
                   heartbeats, staleIF, otherVars>>

\* --------------------------------------------------- GPIO_EVEN_IRQHandler
\* uint32_t pending = GPIO_IntGetEnabled();
GPIO_EVEN_IRQHandler_enter ==
    /\ isr_pc = "idle"
    /\ nvicEnabled /\ IrqLine
    /\ isr_pending' = GPIO_IntGetEnabled(GPIO_IF, GPIO_IEN)
    /\ isr_stale' = (staleIF /\ BitAnd(isr_pending', ESWGPIO_EXTI_IF) # 0)
    /\ isr_pc' = "check"
    /\ UNCHANGED <<ignored, tick, pc, wake, pinVars, hwVars, envVars, ledVars, flagVars, histVars, otherVars>>

\* a handler that takes every interrupt of the vector for the button's
IsButtonInterrupt_any(pending) == pending # 0
\* if (pending & ESWGPIO_EXTI_IF)
IsButtonInterrupt(pending) == BitAnd(pending, ESWGPIO_EXTI_IF) # 0

GPIO_EVEN_IRQHandler_IntClear ==
    /\ isr_pc = "check"
    /\ IsButtonInterrupt(isr_pending)
    /\ GPIO_IF' = GPIO_IntClear(GPIO_IF, ESWGPIO_EXTI_IF)
    /\ staleIF' = FALSE
    /\ isr_pc' = "post"
    /\ UNCHANGED <<tick, pc, wake, pinVars, GPIO_IEN, EXTIFALL, EXTIRISE, nvicEnabled,
                   isr_pending, isr_stale, ignored, envVars, ledVars, flagVars, heartbeats,
                   buttons, otherVars>>

GPIO_EVEN_IRQHandler_osThreadFlagsSet ==
    /\ isr_pc = "post"
    /\ IF buttonThreadId = "NULL"
       THEN UNCHANGED <<thread_flags, posted, posts, postedIdle>>
       ELSE /\ thread_flags' = osThreadFlagsSet(thread_flags, buttonExtIntThreadFlag)
            /\ posted' = SatInc(posted)
            /\ posts' = SatInc(posts)
            /\ postedIdle' = (postedIdle \/ (pc["hp_loop"] = "sleep" /\ pc["button_loop"] # "info"))
    /\ isr_pc' = "idle"
    /\ isr_pending' = 0
    /\ isr_stale' = FALSE
    /\ UNCHANGED <<tick, pc, wake, pinVars, hwVars, envVars, ledVars, buttonThreadId,
                   dropped, consumed, droppedMid, ignored, histVars, otherVars>>

\* else ; // This was not a button interrupt.
GPIO_EVEN_IRQHandler_ignore ==
    /\ isr_pc = "check"
    /\ ~IsButtonInterrupt(isr_pending)
    /\ ignored' = TRUE
    /\ isr_pc' = "idle"
    /\ isr_pending' = 0
    /\ isr_stale' = FALSE
    /\ UNCHANGED <<tick, pc, wake, pinVars, hwVars, envVars, ledVars, flagVars, histVars, otherVars>>

\* ------------------------------------------------------ polling variants
hp_loop_PinModeSet_PB12 ==
    PinModeSetStep("hp_loop", "poll_PinModeSet_LED", "PB12", "PushPull", 0,
                   "poll_osThreadNew_led_one")

hp_loop_osThreadNew_led_one ==
    osThreadNewStep("hp_loop", "poll_osThreadNew_led_one", "led_one", "osDelay")

led_one_delay == IF variant = "siren" THEN LED_ONE_DELAY_SIREN ELSE LED_ONE_DELAY_AMBULANCE

led_one_osDelay == led_osDelay("led_one", led_one_delay)

led_one_drive(o) == GPIO_PinOutToggle(o, "PB12")

led_one_transition ==
    /\ DelayOver("led_one")
    /\ out' = led_one_drive(out)
    /\ Transition("led_one")
    /\ UNCHANGED <<tick, wake, mode, configured, led_cnt, hwVars, isrVars, envVars, flagVars, histVars,
                   otherVars>>

buzzer_loop_PinModeSet_PA0 ==
    PinModeSetStep("buzzer_loop", "PinModeSet_BUZZER", BUZZER, "PushPull", 0, "PinModeSet_PB11")
buzzer_loop_PinModeSet_PB11 ==
    PinModeSetStep("buzzer_loop", "PinModeSet_PB11", "PB11", "PushPull", 0, "PinModeSet_PF4")
buzzer_loop_PinModeSet_PF4 ==
    PinModeSetStep("buzzer_loop", "PinModeSet_PF4", "PF4", "InputPull", 1,
                   "osThreadNew_buzzer_tone")

buzzer_loop_osThreadNew ==
    osThreadNewStep("buzzer_loop", "osThreadNew_buzzer_tone", "buzzer_tone", "spin")

\* for (;;) { }
buzzer_loop_spin ==
    /\ Runs("buzzer_loop", "spin")
    /\ busy' = busy \cup {"buzzer_loop"}
    /\ UNCHANGED <<tick, pc, wake, pinVars, hwVars, isrVars, envVars, ledVars, flagVars,
                   histVars, variant, mainVars, staleDropped, siren_i, justDone, heldLow, invokedLevel, patVars>>

\* buzzer_tone: the button is not pressed, go round the loop again
buzzer_tone_poll_idle ==
    /\ Runs("buzzer_tone", "poll")
    /\ ~ButtonIsPressed(GPIO_PinInGet(ESWGPIO_BUTTON))
    /\ busy' = busy \cup {"buzzer_tone"}
    /\ UNCHANGED <<tick, pc, wake, pinVars, hwVars, isrVars, envVars, ledVars, flagVars,
                   histVars, variant, mainVars, staleDropped, siren_i, justDone, heldLow, invokedLevel, patVars>>

\* buzzer_tone: the button is pressed, call the pattern (int i = 0)
buzzer_tone_poll_pressed ==
    /\ Runs("buzzer_tone", "poll")
    /\ ButtonIsPressed(GPIO_PinInGet(ESWGPIO_BUTTON))
    /\ invokedLevel' = GPIO_PinInGet(ESWGPIO_BUTTON)
    /\ toggles' = 0
    /\ invokedAt' = tick
    /\ levelAtEntry' = GPIO_PinOutGet(out, BUZZER)
    /\ siren_i' = 0
    /\ Goto("buzzer_tone", "tone1")
    /\ UNCHANGED <<tick, wake, pinVars, hwVars, isrVars, envVars, ledVars, flagVars,
                   histVars, variant, mainVars, staleDropped, busy, justDone, heldLow>>

\* for (i = 0; i < count; i++) { osDelay(delay); GPIO_PinOutToggle(gpioPortA, 0); }
\* an iteration that toggles the pin before it sleeps
tone_osDelay_toggles_first(at, count, delay, sleepPc) ==
    /\ Runs("buzzer_tone", at)
    /\ siren_i < count
    /\ out' = GPIO_PinOutToggle(out, BUZZER)
    /\ toggles' = toggles + 1
    /\ osDelayAt("buzzer_tone", delay, sleepPc)
    /\ UNCHANGED <<tick, mode, configured, hwVars, isrVars, envVars, ledVars, flagVars,
                   histVars, variant, mainVars, staleDropped, busy, siren_i, justDone,
                   heldLow, invokedLevel, invokedAt, levelAtEntry>>

tone_osDelay(at, count, delay, sleepPc) ==
    /\ Runs("buzzer_tone", at)
    /\ siren_i < count
    /\ osDelayAt("buzzer_tone", delay, sleepPc)
    /\ UNCHANGED <<tick, pinVars, hwVars, isrVars, envVars, ledVars, flagVars, histVars,
                   otherVars>>

tone_toggle(sleepPc, at) ==
    /\ DelayOverAt("buzzer_tone", sleepPc)
    /\ out' = GPIO_PinOutToggle(out, BUZZER)
    /\ siren_i' = siren_i + 1
    /\ toggles' = toggles + 1
    /\ Goto("buzzer_tone", at)
    /\ UNCHANGED <<tick, wake, mode, configured, hwVars, isrVars, envVars, ledVars, flagVars, histVars,
                   variant, mainVars, staleDropped, busy, justDone, heldLow, invokedLevel,
                   invokedAt, levelAtEntry>>

\* the loop is over: osDelay(50)
gap_osDelay(at, count, sleepPc) ==
    /\ Runs("buzzer_tone", at)
    /\ ~(siren_i < count)
    /\ osDelayAt("buzzer_tone", TONE_GAP, sleepPc)
    /\ UNCHANGED <<tick, pinVars, hwVars, isrVars, envVars, ledVars, flagVars, histVars,
                   otherVars>>

siren_sound_tone1_osDelay == tone_osDelay("tone1", TONE1_COUNT, TONE1_DELAY, "sleep_tone1")
siren_sound_tone1_toggle == tone_toggle("sleep_tone1", "tone1")
siren_sound_gap1_osDelay == gap_osDelay("tone1", TONE1_COUNT, "sleep_gap1")

\* one loop counter for both loops, not set back to 0 for the second
siren_sound_gap1_over_keeps_i ==
    /\ DelayOverAt("buzzer_tone", "sleep_gap1")
    /\ Goto("buzzer_tone", "tone2")
    /\ UNCHANGED <<tick, wake, pinVars, hwVars, isrVars, envVars, ledVars, flagVars, histVars,
                   otherVars>>

siren_sound_gap1_over ==
    /\ DelayOverAt("buzzer_tone", "sleep_gap1")
    /\ siren_i' = 0
    /\ Goto("buzzer_tone", "tone2")
    /\ UNCHANGED <<tick, wake, pinVars, hwVars, isrVars, envVars, ledVars, flagVars, histVars,
                   variant, mainVars, staleDropped, busy, justDone, heldLow, invokedLevel, patVars>>

siren_sound_tone2_osDelay == tone_osDelay("tone2", TONE2_COUNT, TONE2_DELAY, "sleep_tone2")
siren_sound_tone2_toggle == tone_toggle("sleep_tone2", "tone2")
siren_sound_gap2_osDelay == gap_osDelay("tone2", TONE2_COUNT, "sleep_gap2")

\* the pattern returns to the loop of buzzer_tone
siren_sound_return ==
    /\ DelayOverAt("buzzer_tone", "sleep_gap2")
    /\ justDone' = TRUE
    /\ heldLow' = (buttonLevel = 0)
    /\ Goto("buzzer_tone", "poll")
    /\ UNCHANGED <<tick, wake, pinVars, hwVars, isrVars, envVars, ledVars, flagVars, histVars,
                   variant, mainVars, staleDropped, busy, siren_i, invokedLevel, patVars>>

\* ------------------------------------------------------------ environment
\* The enable call of hp_loop has not yet cleared the pending flag.
BeforeEnableClear ==
    pc["hp_loop"] \in {"PinModeSet_LED0", "PinModeSet_LED1", "PinModeSet_LED2",
                  "osThreadNew_led0", "osThreadNew_led1", "osThreadNew_led2",
                  "init_PinModeSet", "init_IntDisable", "init_ExtIntConfig",
                  "osThreadNew_button", "enable_IntClear"}

InputEnabled(pin) == mode[pin] \in {"InputPullFilter", "InputPull"}

\* An edge on the button line latches pending bit 4 when that edge is selected.
EdgeLatch(sel) ==
    IF InputEnabled(ESWGPIO_BUTTON) /\ BitAnd(sel, ESWGPIO_EXTI_IF) # 0
    THEN /\ GPIO_IF' = BitOr(GPIO_IF, ESWGPIO_EXTI_IF)
         /\ staleIF' = IF BitAnd(GPIO_IF, ESWGPIO_EXTI_IF) # 0 THEN staleIF
                       ELSE BeforeEnableClear
    ELSE UNCHANGED <<GPIO_IF, staleIF>>

ButtonPress ==
    /\ buttonLevel = 1
    /\ edgeBudget > 0
    /\ buttonLevel' = 0
    /\ edgeBudget' = edgeBudget - 1
    /\ edges' = edges + 1
    /\ EdgeLatch(EXTIFALL)
    /\ UNCHANGED <<tick, pc, wake, pinVars, GPIO_IEN, EXTIFALL, EXTIRISE, nvicEnabled,
                   isrVars, otherBudget, ledVars, flagVars, heartbeats, buttons, otherVars>>

ButtonRelease ==
    /\ buttonLevel = 0
    /\ buttonLevel' = 1
    /\ EdgeLatch(EXTIRISE)
    /\ heldLow' = FALSE
    /\ UNCHANGED <<tick, pc, wake, pinVars, GPIO_IEN, EXTIFALL, EXTIRISE, nvicEnabled,
                   isrVars, edgeBudget, otherBudget, edges, ledVars, flagVars, heartbeats, buttons,
                   variant, mainVars, staleDropped, busy, siren_i, justDone, invokedLevel, patVars>>

\* Another source on the shared even vector becomes pending and enabled ...
OtherExtiRaise ==
    /\ otherBudget > 0
    /\ otherBudget' = otherBudget - 1
    /\ GPIO_IF' = BitOr(GPIO_IF, OtherExtiIF)
    /\ GPIO_IEN' = BitOr(GPIO_IEN, OtherExtiIF)
    /\ UNCHANGED <<tick, pc, wake, pinVars, EXTIFALL, EXTIRISE, nvicEnabled, isrVars,
                   buttonLevel, edgeBudget, edges, ledVars, flagVars, histVars, otherVars>>

\* ... and is served by its owner.
OtherExtiService ==
    /\ BitAnd(GPIO_IF, OtherExtiIF) # 0
    /\ GPIO_IF' = BitClear(GPIO_IF, OtherExtiIF)
    /\ UNCHANGED <<tick, pc, wake, pinVars, GPIO_IEN, EXTIFALL, EXTIRISE, nvicEnabled,
                   isrVars, envVars, ledVars, flagVars, histVars, otherVars>>

\* Kernel ticks pass while nothing can run.  The ticks at which no delay
\* expires change nothing but the count, so time moves straight to the next
\* tick at which a delay expires.
Sleepers == {t \in Threads : pc[t] \in SleepPcs}
NextWake == CHOOSE w \in {wake[t] : t \in Sleepers} : \A t \in Sleepers : w <= wake[t]

TickTo(limit) ==
    /\ KernelRunning
    /\ ~IrqActive
    /\ \A t \in Threads : Blocked(t) \/ Spinning(t)
    /\ Sleepers # {}
    /\ NextWake <= limit
    /\ tick' = NextWake
    /\ busy' = {}
    /\ justDone' = FALSE
    /\ UNCHANGED <<pc, wake, pinVars, hwVars, isrVars, envVars, ledVars, flagVars, histVars,
                   variant, mainVars, staleDropped, siren_i, heldLow, invokedLevel, patVars>>

Tick == TickTo(MaxTick)

\* ---------------------------------------------------------- specification
Next ==
    \/ main_osKernelInitialize
    \/ main_osThreadNew_hp_loop
    \/ main_osThreadNew_buzzer_loop
    \/ main_osKernelStart
    \/ main_err1
    \/ main_halt
    \/ hp_loop_PinModeSet_LED0
    \/ hp_loop_PinModeSet_LED1
    \/ hp_loop_PinModeSet_LED2
    \/ hp_loop_osThreadNew_led0
    \/ hp_loop_osThreadNew_led1
    \/ hp_loop_osThreadNew_led2
    \/ gpio_external_interrupt_init_PinModeSet
    \/ gpio_external_interrupt_init_IntDisable
    \/ gpio_external_interrupt_init_ExtIntConfig
    \/ hp_loop_osThreadNew_button
    \/ gpio_external_interrupt_enable_IntClear
    \/ gpio_external_interrupt_enable_NVIC_EnableIRQ
    \/ gpio_external_interrupt_enable_IntEnable
    \/ hp_loop_osDelay
    \/ hp_loop_Heartbeat
    \/ led0_loop_start
    \/ led0_loop_osDelay
    \/ led0_loop_transition
    \/ led1_loop_osDelay
    \/ led1_loop_transition
    \/ led2_loop_osDelay
    \/ led2_loop_transition
    \/ button_loop_osThreadFlagsClear
    \/ button_loop_osThreadFlagsWait
    \/ button_loop_info
    \/ GPIO_EVEN_IRQHandler_enter
    \/ GPIO_EVEN_IRQHandler_IntClear
    \/ GPIO_EVEN_IRQHandler_osThreadFlagsSet
    \/ GPIO_EVEN_IRQHandler_ignore
    \/ hp_loop_PinModeSet_PB12
    \/ hp_loop_osThreadNew_led_one
    \/ led_one_osDelay
    \/ led_one_transition
    \/ buzzer_loop_PinModeSet_PA0
    \/ buzzer_loop_PinModeSet_PB11
    \/ buzzer_loop_PinModeSet_PF4
    \/ buzzer_loop_osThreadNew
    \/ buzzer_loop_spin
    \/ buzzer_tone_poll_idle
    \/ buzzer_tone_poll_pressed
    \/ siren_sound_tone1_osDelay
    \/ siren_sound_tone1_toggle
    \/ siren_sound_gap1_osDelay
    \/ siren_sound_gap1_over
    \/ siren_sound_tone2_osDelay
    \/ siren_sound_tone2_toggle
    \/ siren_sound_gap2_osDelay
    \/ siren_sound_return
    \/ ButtonPress
    \/ ButtonRelease
    \/ OtherExtiRaise
    \/ OtherExtiService
    \/ Tick

Spec == Init /\ [][Next]_vars

\* The interrupt variant late in its run, at the tick at which led0_loop has
\* made 2^32 - 2 transitions (333 * (2^32 - 2) ticks after the start), with
\* the tick count and the transition counts taken from that tick on.  The pin
\* of led0_loop is LOW after an even number of transitions; led1_loop has made
\* an even number of transitions and wakes 98 ticks later, led2_loop 1098
\* ticks later; the button has not been pressed.
InitLate ==
    /\ variant = "interrupt"
    /\ tick = 0
    /\ pc = [t \in Threads |->
               CASE t \in {"hp_loop", "led1_loop", "led2_loop"} -> "sleep"
                 [] t = "led0_loop" -> "delay"
                 [] t = "button_loop" -> "wait"
                 [] OTHER -> "none"]
    /\ wake = [t \in Threads |->
               CASE t = "hp_loop" -> ESWGPIO_HB_DELAY * TickFreq
                 [] t = "led1_loop" -> 98
                 [] t = "led2_loop" -> 1098
                 [] OTHER -> 0]
    /\ mode = [p \in Pins |->
               CASE p \in {ESWGPIO_LED0, ESWGPIO_LED1, ESWGPIO_LED2} -> "PushPull"
                 [] p = ESWGPIO_BUTTON -> "InputPullFilter"
                 [] OTHER -> "Disabled"]
    /\ out = [p \in Pins |-> IF p = ESWGPIO_BUTTON THEN 1 ELSE 0]
    /\ configured = [p \in Pins |-> IF p = BUZZER THEN 0 ELSE 1]
    /\ postedIdle = FALSE
    /\ edges = 0
    /\ buttonLevel = 1
    /\ led_cnt = [hi |-> Half - 1, lo |-> Half - 2]
    /\ GPIO_IF = 0
    /\ GPIO_IEN = ESWGPIO_EXTI_IF
    /\ EXTIFALL = ESWGPIO_EXTI_IF
    /\ EXTIRISE = 0
    /\ nvicEnabled = TRUE
    /\ isr_pc = "idle"
    /\ isr_pending = 0
    /\ buttonThreadId = "button_loop"
    /\ thread_flags = 0
    /\ heartbeats = 0
    /\ buttons = 0
    /\ trans = [t \in Togglers |-> 0]
    /\ lastTrans = [t \in Togglers |-> 0]
    /\ posted = 0
    /\ staleIF = FALSE
    /\ isr_stale = FALSE
    /\ edgeBudget = MaxEdges
    /\ otherBudget = MaxOther
    /\ busy = {}
    /\ siren_i = 0
    /\ justDone = FALSE
    /\ heldLow = FALSE
    /\ invokedLevel = 1
    /\ posts = 0
    /\ dropped = 0
    /\ staleDropped = FALSE
    /\ consumed = 0
    /\ droppedMid = FALSE
    /\ ignored = FALSE
    /\ main_pc = "started"
    /\ kernelState = "osKernelRunning"
    /\ errLogged = FALSE
    /\ toggles = 0
    /\ invokedAt = 0
    /\ levelAtEntry = 0

\* Fair scheduling.  The processor does not idle while main, a ready thread
\* (equal priority, round robin), the interrupt handler or the tick has a
\* step to make, and the owner of the other interrupt line serves its
\* interrupt.  A statement takes no tick, so between two ticks every thread
\* runs until it blocks, and no ready thread is passed over for ever.
main_steps ==
    \/ main_osKernelInitialize
    \/ main_osThreadNew_hp_loop
    \/ main_osThreadNew_buzzer_loop
    \/ main_osKernelStart
    \/ main_err1
hp_loop_steps ==
    \/ hp_loop_PinModeSet_LED0 \/ hp_loop_PinModeSet_LED1 \/ hp_loop_PinModeSet_LED2
    \/ hp_loop_osThreadNew_led0 \/ hp_loop_osThreadNew_led1 \/ hp_loop_osThreadNew_led2
    \/ gpio_external_interrupt_init_PinModeSet
    \/ gpio_external_interrupt_init_IntDisable
    \/ gpio_external_interrupt_init_ExtIntConfig
    \/ hp_loop_osThreadNew_button
    \/ gpio_external_interrupt_enable_IntClear
    \/ gpio_external_interrupt_enable_NVIC_EnableIRQ
    \/ gpio_external_interrupt_enable_IntEnable
    \/ hp_loop_PinModeSet_PB12
    \/ hp_loop_osThreadNew_led_one
    \/ hp_loop_osDelay
    \/ hp_loop_Heartbeat
led_steps ==
    \/ led0_loop_start \/ led0_loop_osDelay \/ led0_loop_transition
    \/ led1_loop_osDelay \/ led1_loop_transition
    \/ led2_loop_osDelay \/ led2_loop_transition
    \/ led_one_osDelay \/ led_one_transition
button_loop_steps ==
    \/ button_loop_osThreadFlagsClear
    \/ button_loop_osThreadFlagsWait
    \/ button_loop_info
buzzer_loop_steps ==
    \/ buzzer_loop_PinModeSet_PA0 \/ buzzer_loop_PinModeSet_PB11 \/ buzzer_loop_PinModeSet_PF4
    \/ buzzer_loop_osThreadNew
buzzer_tone_steps ==
    \/ buzzer_tone_poll_pressed
    \/ siren_sound_tone1_osDelay \/ siren_sound_tone1_toggle
    \/ siren_sound_gap1_osDelay \/ siren_sound_gap1_over
    \/ siren_sound_tone2_osDelay \/ siren_sound_tone2_toggle
    \/ siren_sound_gap2_osDelay \/ siren_sound_return
GPIO_EVEN_IRQHandler_steps ==
    \/ GPIO_EVEN_IRQHandler_enter
    \/ GPIO_EVEN_IRQHandler_IntClear
    \/ GPIO_EVEN_IRQHandler_osThreadFlagsSet
    \/ GPIO_EVEN_IRQHandler_ignore

\* a step of the interrupt handler, of a thread or of main
ThreadStep ==
    \/ GPIO_EVEN_IRQHandler_steps
    \/ buzzer_tone_steps
    \/ led_steps
    \/ hp_loop_steps
    \/ button_loop_steps
    \/ buzzer_loop_steps
    \/ main_steps

\* Fair behaviours are followed up to tick MaxTickFair, with MaxEdgesFair
\* presses of the button.
TickFair == TickTo(MaxTickFair)

ProgramStep == TickFair \/ ThreadStep

Fairness ==
    /\ WF_vars(ProgramStep)
    /\ WF_vars(OtherExtiService)

InitFair == InitEdges(MaxEdgesFair)

NextFair ==
    \/ ThreadStep
    \/ main_halt
    \/ buzzer_loop_spin
    \/ buzzer_tone_poll_idle
    \/ ButtonPress
    \/ ButtonRelease
    \/ OtherExtiRaise
    \/ OtherExtiService
    \/ TickFair

SpecFair == InitFair /\ [][NextFair]_vars /\ Fairness

\* The program from its start, or the interrupt variant late in its run.
SpecLate == (Init \/ InitLate) /\ [][Next]_vars

TypeOK ==
    /\ tick \in 0..MaxTick
    /\ variant \in Variants
    /\ pc \in [Threads -> STRING]
    /\ out \in [Pins -> {0, 1}]
    /\ buttonLevel \in {0, 1}
    /\ thread_flags \in Nat
    /\ GPIO_IF \in Nat /\ GPIO_IEN \in Nat
    /\ isr_pc \in {"idle", "check", "post"}
    /\ busy \subseteq Threads \cup {"main"}
    /\ main_pc \in {"osKernelInitialize", "osThreadNew_hp_loop", "osThreadNew_buzzer_loop",
                    "osKernelGetState", "started", "halt"}
    /\ kernelState \in KernelInitOutcomes \cup {"osKernelRunning"}
    /\ errLogged \in BOOLEAN

\* ================================================================ claims
FlagPending == osThreadFlagsWaitReady(thread_flags, buttonExtIntThreadFlag)
Wakes == buttons + (IF pc["button_loop"] = "info" THEN 1 ELSE 0)
Bit4(reg) == BitAnd(reg, ESWGPIO_EXTI_IF) # 0

\* C1: the thread flag of button_loop holds at most one pending notification:
\* its value is never more than the single flag bit, it is set exactly while
\* posts of the handler wait to be consumed, and a return of
\* osThreadFlagsWait that finds two or more posts takes them all at once,
\* leaving the flag clear, so that those posts wake button_loop once.
C1_OnePendingNotification ==
    /\ [](thread_flags \in {0, buttonExtIntThreadFlag})
    /\ [](FlagPending <=> posted >= 1)
    /\ [][button_loop_osThreadFlagsWait /\ posted >= 2
            => /\ thread_flags' = 0
               /\ consumed' = posted
               /\ Wakes' = Wakes + 1]_vars

\* Two posts were taken by one wake: one "Button" line, and button_loop is
\* blocked in its wait again.
C1_Witness ==
    /\ consumed = 2
    /\ posts = 2
    /\ buttons = 1
    /\ pc["button_loop"] = "wait"
    /\ ~FlagPending

\* C2: when osThreadFlagsWait returns in button_loop the flag is clear, and
\* button_loop has never woken more often than the handler has posted.
C2_AutoClear ==
    /\ [][button_loop_osThreadFlagsWait => ~osThreadFlagsWaitReady(thread_flags', buttonExtIntThreadFlag)]_vars
    /\ [](Wakes <= posts)
    /\ [][Wakes' > Wakes => posted >= 1]_vars

\* button_loop woke once for one post and its wait blocks again.
C2_Witness ==
    /\ posts = 1
    /\ buttons = 1
    /\ pc["button_loop"] = "wait"
    /\ ~FlagPending
    /\ isr_pc = "idle"

\* C3: a run of the handler whose pending-and-enabled value lacks the bit of
\* line 4 changes neither the thread flags of button_loop nor the pending
\* register, and posts nothing.
C3_HandlerIgnores ==
    [][ /\ isr_pc' # isr_pc
        /\ ~Bit4(IF isr_pc = "idle" THEN isr_pending' ELSE isr_pending)
        => /\ thread_flags' = thread_flags
           /\ GPIO_IF' = GPIO_IF
           /\ posts' = posts ]_vars

\* The handler returned through its ignore branch while bit 4 was pending
\* but not enabled.
C3_Witness ==
    /\ ignored
    /\ isr_pc = "idle"
    /\ Bit4(GPIO_IF)
    /\ ~Bit4(GPIO_IEN)
    /\ posts = 0

\* C4: button_loop wakes only for a post made after it re-armed (cleared the
\* flag or consumed it); the osThreadFlagsClear that ends a reaction leaves
\* the flag clear, so a post made during the reaction neither restarts nor
\* queues it; every wake is followed by one "Button" line.
C4_EdgeDuringReaction ==
    /\ [](pc["button_loop"] = "wait" /\ FlagPending => posted >= 1)
    /\ [][button_loop_osThreadFlagsClear
            => ~osThreadFlagsWaitReady(thread_flags', buttonExtIntThreadFlag)
               /\ pc'["button_loop"] = "wait"]_vars
    /\ [][pc["button_loop"] = "info" /\ pc'["button_loop"] # "info"
            => buttons' = buttons + 1 /\ pc'["button_loop"] = "clear"]_vars
    /\ [](Wakes + dropped <= posts)

\* An edge handled during the reaction was discarded: one wake, one post
\* dropped, and button_loop blocked again.
C4_Witness ==
    /\ droppedMid
    /\ buttons = 1
    /\ posts = 2
    /\ dropped = 1
    /\ pc["button_loop"] = "wait"
    /\ ~FlagPending
    /\ isr_pc = "idle"

\* C5: the mode of the button pin and the edge selection of line 4 change
\* only while interrupt 4 is masked and leave it masked; interrupt 4 is
\* unmasked only with no pending bit left from before the clear; and the
\* handler never posts for a pending bit latched before that clear.
C5_TwoPhaseEnable ==
    /\ [][ (mode'[ESWGPIO_BUTTON] # mode[ESWGPIO_BUTTON]
            \/ EXTIFALL' # EXTIFALL \/ EXTIRISE' # EXTIRISE)
           => ~Bit4(GPIO_IEN) /\ ~Bit4(GPIO_IEN') ]_vars
    /\ [][ ~Bit4(GPIO_IEN) /\ Bit4(GPIO_IEN') => ~staleIF /\ ~staleIF' ]_vars
    /\ [](isr_pc = "post" => ~isr_stale)
    /\ [](Bit4(GPIO_IEN) => ~staleIF)

\* An edge latched before the clear was wiped; the interrupt is enabled and
\* nothing has been posted.
C5_Witness ==
    /\ staleDropped
    /\ Bit4(GPIO_IEN)
    /\ nvicEnabled
    /\ pc["hp_loop"] = "sleep"
    /\ pc["button_loop"] = "wait"
    /\ posts = 0
    /\ isr_pc = "idle"
    /\ ~Bit4(GPIO_IF)

\* C6: every transition of led2_loop inverts its pin, as an unconditional
\* toggle would.
C6_Led2Inverts ==
    [][led2_loop_transition
        => out'[ESWGPIO_LED2] = GPIO_PinOutToggle(out, ESWGPIO_LED2)[ESWGPIO_LED2]]_vars

\* C7: in the interrupt variant the k-th transition of led1_loop is made at
\* tick 1000*k, none is late, and after k transitions the pin is HIGH iff k
\* is odd.
C7_Led1Schedule ==
    variant = "interrupt" =>
        LET k == trans["led1_loop"] IN
        /\ out[ESWGPIO_LED1] = k % 2
        /\ lastTrans["led1_loop"] = ESWGPIO_LED1_DELAY * k
        /\ tick <= ESWGPIO_LED1_DELAY * (k + 1)
        /\ pc["led1_loop"] = "sleep" => wake["led1_loop"] = ESWGPIO_LED1_DELAY * (k + 1)

\* Third transition made at tick 3000: the pin is HIGH.
C7_Witness ==
    /\ variant = "interrupt"
    /\ trans["led1_loop"] = 3
    /\ tick = 3000
    /\ lastTrans["led1_loop"] = 3000
    /\ out[ESWGPIO_LED1] = 1

\* C8: led0_loop starts its counter at 0; each transition drives the pin HIGH
\* when the counter is even and LOW when it is odd and inverts the pin, also
\* across the wrap of the 32-bit counter from its maximum to 0.
C8_Led0Alternates ==
    /\ [][led0_loop_start => led_cnt' = U32Zero]_vars
    /\ [][led0_loop_transition
            => /\ out'[ESWGPIO_LED0] = (IF U32Mod2(led_cnt) = 0 THEN 1 ELSE 0)
               /\ out'[ESWGPIO_LED0] = 1 - out[ESWGPIO_LED0]
               /\ led_cnt' = IF led_cnt = U32Max THEN U32Zero ELSE U32Inc(led_cnt)]_vars
    /\ [](variant = "interrupt" => out[ESWGPIO_LED0] = trans["led0_loop"] % 2)

\* The counter has wrapped from its maximum to 0 and on to 1; the pin went
\* HIGH, LOW, HIGH.
C8_Witness ==
    /\ led_cnt = [hi |-> 0, lo |-> 1]
    /\ trans["led0_loop"] = 3
    /\ out[ESWGPIO_LED0] = 1

PatternPcs == {"tone1", "sleep_tone1", "sleep_gap1", "tone2", "sleep_tone2", "sleep_gap2"}

\* C9: while the button line is LOW, buzzer_tone invokes the pattern again in
\* the very tick in which it returned, and no tick passes with buzzer_tone at
\* its poll; while the line reads HIGH, buzzer_tone stays at its poll (it
\* never enters a delay) and the buzzer pin is not toggled: the pin is
\* toggled only inside a pattern that a LOW read invoked, and never as long
\* as the button has not been pressed.
C9_Polling ==
    /\ [][buzzer_tone_poll_pressed /\ heldLow => justDone]_vars
    /\ [][tick' # tick => ~(pc["buzzer_tone"] = "poll" /\ buttonLevel = 0)]_vars
    /\ [][pc["buzzer_tone"] = "poll" /\ pc'["buzzer_tone"] # "poll"
            => buttonLevel = 0 /\ pc'["buzzer_tone"] = "tone1"]_vars
    /\ [](pc["buzzer_tone"] \in PatternPcs => invokedLevel = 0)
    /\ [](variant # "interrupt" /\ edgeBudget = MaxEdges
            => pc["buzzer_tone"] \in {"none", "poll"} /\ out[BUZZER] = 0)
    /\ [][out'[BUZZER] # out[BUZZER] => pc["buzzer_tone"] \in {"sleep_tone1", "sleep_tone2"}]_vars

\* The button was held through a whole pattern and the pattern has been
\* invoked again in the tick of its return.
C9_Witness ==
    /\ pc["buzzer_tone"] = "tone1"
    /\ siren_i = 0
    /\ heldLow
    /\ justDone
    /\ tick = 500

Owner(p) ==
    CASE p = "PB11" -> IF variant = "interrupt" THEN "led0_loop" ELSE "none"
      [] p = "PB12" -> IF variant = "interrupt" THEN "led1_loop" ELSE "led_one"
      [] p = "PA5" -> IF variant = "interrupt" THEN "led2_loop" ELSE "none"
      [] p = "PA0" -> IF variant = "interrupt" THEN "none" ELSE "buzzer_tone"
      [] OTHER -> "none"

Period(t) ==
    CASE t = "led0_loop" -> ESWGPIO_LED0_DELAY
      [] t = "led1_loop" -> ESWGPIO_LED1_DELAY
      [] t = "led2_loop" -> ESWGPIO_LED2_DELAY
      [] t = "led_one" -> led_one_delay

OutputPins == Pins \ {ESWGPIO_BUTTON}

InitFailed ==
    /\ main_pc # "osKernelInitialize"
    /\ kernelState \in {"osKernelInactive", "osKernelError"}

\* C11: when the kernel is not ready after osKernelInitialize and the thread
\* creation, main logs "!osKernelReady" and goes to its final empty loop
\* without starting the kernel; it stays there (no retry), the kernel is
\* never started, no created thread leaves its first statement, no pin is
\* configured or driven, no tick passes and the button interrupt stays
\* disabled.
C11_KernelNotReady ==
    /\ [][InitFailed /\ main_pc = "osKernelGetState" /\ main_pc' # main_pc
            => errLogged' /\ main_pc' = "halt" /\ kernelState' = kernelState]_vars
    /\ [](InitFailed /\ main_pc = "halt" => errLogged)
    /\ [][InitFailed => InitFailed']_vars
    /\ [][main_pc = "halt" => main_pc' = "halt" /\ kernelState' = kernelState]_vars
    /\ [](InitFailed =>
            /\ \A t \in Threads : pc[t] \in {"none", InitPc(variant)[t]}
            /\ \A p \in Pins : mode[p] = "Disabled" /\ out[p] = 0
            /\ tick = 0 /\ heartbeats = 0 /\ buttons = 0
            /\ ~nvicEnabled /\ ~Bit4(GPIO_IEN) /\ isr_pc = "idle")

\* The kernel failed to initialize in a polling variant: main has logged the
\* error and spins in its final loop, both created threads are still at
\* their first statement, and a press of the button has had no effect.
C11_Witness ==
    /\ InitFailed
    /\ variant = "siren"
    /\ main_pc = "halt"
    /\ errLogged
    /\ "main" \in busy
    /\ pc["hp_loop"] = "poll_PinModeSet_LED"
    /\ pc["buzzer_loop"] = "PinModeSet_BUZZER"
    /\ buttonLevel = 0
    /\ out[BUZZER] = 0

\* C12: no thread created by the program other than buzzer_tone goes round
\* its loop without a suspension point: hp_loop, buzzer_loop, the LED loops
\* and button_loop never spin.
C12_NoBusyWait == busy \cap (Threads \ {"buzzer_tone"}) = {}

PATTERN_TICKS == TONE1_COUNT * TONE1_DELAY + TONE_GAP + TONE2_COUNT * TONE2_DELAY + TONE_GAP

\* Tick, counted from the invocation of the pattern, of its n-th toggle.
ToggleTick(n) ==
    IF n <= TONE1_COUNT
    THEN TONE1_DELAY * n
    ELSE TONE1_COUNT * TONE1_DELAY + TONE_GAP + TONE2_DELAY * (n - TONE1_COUNT)

InPattern == pc["buzzer_tone"] \in PatternPcs

\* C13: an invocation of the reaction pattern makes its toggles 1..100 two
\* ticks apart, sleeps 50 ticks, makes its toggles 101..150 four ticks apart,
\* sleeps 50 ticks and returns, whatever the button does meanwhile: it
\* returns 500 ticks after its invocation with exactly 150 toggles made and
\* the buzzer pin at the level it had on entry, the button is read again only
\* after the return, and every invocation that fits the checked time returns.
C13_PatternTerminates ==
    /\ [][out'[BUZZER] # out[BUZZER]
            => /\ toggles' = toggles + 1
               /\ tick = invokedAt + ToggleTick(toggles')
               /\ (toggles' <= TONE1_COUNT <=> pc["buzzer_tone"] = "sleep_tone1")
               /\ (toggles' > TONE1_COUNT <=> pc["buzzer_tone"] = "sleep_tone2")]_vars
    /\ [](InPattern => toggles <= TONE1_COUNT + TONE2_COUNT)
    /\ [](pc["buzzer_tone"] = "sleep_gap1"
            => toggles = TONE1_COUNT /\ wake["buzzer_tone"] = invokedAt + ToggleTick(TONE1_COUNT) + TONE_GAP)
    /\ [](pc["buzzer_tone"] = "sleep_gap2"
            => toggles = TONE1_COUNT + TONE2_COUNT /\ wake["buzzer_tone"] = invokedAt + PATTERN_TICKS)
    /\ [][InPattern /\ ~InPattern'
            => /\ pc'["buzzer_tone"] = "poll"
               /\ toggles = TONE1_COUNT + TONE2_COUNT
               /\ tick = invokedAt + PATTERN_TICKS
               /\ out[BUZZER] = levelAtEntry]_vars
    /\ [][invokedLevel' # invokedLevel \/ invokedAt' # invokedAt => ~InPattern]_vars
    /\ []<>(InPattern => invokedAt + PATTERN_TICKS > MaxTickFair)

\* The pattern has returned, 500 ticks after its invocation and with 150
\* toggles made, although the button was released while it ran.
C13_Witness ==
    /\ pc["buzzer_tone"] = "poll"
    /\ justDone
    /\ toggles = TONE1_COUNT + TONE2_COUNT
    /\ tick = invokedAt + PATTERN_TICKS
    /\ buttonLevel = 1
    /\ out[BUZZER] = levelAtEntry

HB_PERIOD == ESWGPIO_HB_DELAY * TickFreq

\* C14: in every variant, once the kernel runs, hp_loop finishes its
\* initialization and then logs "Heartbeat" again and again under fair
\* scheduling: the k-th line is logged at tick k*(10*tick frequency), between
\* two lines hp_loop sleeps for that period, and every heartbeat due within
\* the checked time is logged, also while buzzer_loop and buzzer_tone spin.
C14_Heartbeat ==
    /\ [][heartbeats' # heartbeats
            => /\ heartbeats' = heartbeats + 1
               /\ tick = HB_PERIOD * heartbeats'
               /\ pc'["hp_loop"] = "osDelay"]_vars
    /\ [](pc["hp_loop"] = "sleep" => wake["hp_loop"] = HB_PERIOD * (heartbeats + 1))
    /\ []<>(KernelRunning => heartbeats >= MaxTickFair \div HB_PERIOD)

\* A polling variant at a heartbeat, with buzzer_loop and buzzer_tone
\* spinning in that tick, and hp_loop asleep again.
C14_Witness ==
    /\ variant = "ambulance"
    /\ heartbeats = 1
    /\ tick = HB_PERIOD
    /\ wake["hp_loop"] = 2 * HB_PERIOD
    /\ {"buzzer_loop", "buzzer_tone"} \subseteq busy
    /\ pc["hp_loop"] = "sleep"

\* Pins that a thread sets, clears, toggles or reads.
PinsUsedBy(t) ==
    CASE t = "led0_loop" -> {ESWGPIO_LED0}
      [] t = "led1_loop" -> {ESWGPIO_LED1}
      [] t = "led2_loop" -> {ESWGPIO_LED2}
      [] t = "led_one" -> {"PB12"}
      [] t = "buzzer_tone" -> {BUZZER, "PF4"}
      [] OTHER -> {}

\* Pins that the variant configures.
PinsOf(v) ==
    IF v = "interrupt"
    THEN {ESWGPIO_LED0, ESWGPIO_LED1, ESWGPIO_LED2, ESWGPIO_BUTTON}
    ELSE {"PB12", BUZZER, "PB11", "PF4"}

\* hp_loop (and buzzer_loop, where there is one) has finished its setup.
SetupDone ==
    /\ pc["hp_loop"] \in {"osDelay", "sleep"}
    /\ variant # "interrupt" => pc["buzzer_loop"] = "spin"

\* C15: in every variant and interleaving no pin is configured more than
\* once, after the setup every pin of the variant has been configured exactly
\* once, a thread is created only after every pin it uses has been
\* configured, and every set, clear, toggle or read of a pin is made on a pin
\* configured exactly once before.
C15_ConfiguredOnce ==
    /\ [](\A p \in Pins : configured[p] <= 1)
    /\ [](SetupDone => \A p \in Pins : configured[p] = IF p \in PinsOf(variant) THEN 1 ELSE 0)
    /\ [][\A t \in Threads : pc[t] = "none" /\ pc'[t] # "none"
            => \A p \in PinsUsedBy(t) : configured[p] = 1]_vars
    /\ [][\A t \in Threads : pc'[t] # pc[t] /\ pc[t] # "none"
            => \A p \in PinsUsedBy(t) : configured[p] = 1 /\ mode[p] # "Disabled"]_vars
    /\ [][\A p \in Pins : out'[p] # out[p] /\ configured'[p] = configured[p]
            => configured[p] = 1 /\ mode[p] = "PushPull"]_vars
    /\ [][buzzer_tone_poll_idle \/ buzzer_tone_poll_pressed
            => configured["PF4"] = 1 /\ mode["PF4"] = "InputPull"]_vars

\* A polling variant after the setup of both hp_loop and buzzer_loop: every
\* pin of the variant configured once, led_one and the buzzer pattern at work
\* on their pins.
C15_Witness ==
    /\ variant = "siren"
    /\ SetupDone
    /\ \A p \in PinsOf(variant) : configured[p] = 1
    /\ configured[ESWGPIO_LED2] = 0
    /\ trans["led_one"] >= 1
    /\ toggles >= 1

\* Tick, counted from the invocation of the pattern, at which an iteration
\* that toggles and then sleeps would make the n-th toggle.
ToggleFirstTick(n) ==
    IF n <= TONE1_COUNT
    THEN TONE1_DELAY * (n - 1)
    ELSE TONE1_COUNT * TONE1_DELAY + TONE_GAP + TONE2_DELAY * (n - TONE1_COUNT - 1)

\* C16, as claimed: every iteration of the pattern toggles and then sleeps,
\* so the first toggle is made in the tick of the invocation and the n-th
\* toggle of a phase n-1 sleeps later.
C16_ToggleThenSleep ==
    [][out'[BUZZER] # out[BUZZER] => tick = invokedAt + ToggleFirstTick(toggles')]_vars

\* C16, amended: every iteration of the pattern sleeps and then toggles.  The
\* invocation toggles nothing; each pass through a tone loop first sleeps 2
\* (4) ticks, or leaves the loop for the gap of 50 ticks, with the pin
\* unchanged; a toggle is made only at the expiry of the sleep of its own
\* iteration, so the first toggle comes 2 ticks after the invocation and the
\* last toggle of a phase is followed at once by the gap.
C16_SleepThenToggle ==
    /\ [][buzzer_tone_poll_pressed => out' = out /\ pc'["buzzer_tone"] = "tone1"]_vars
    /\ [][pc["buzzer_tone"] = "tone1" /\ pc'["buzzer_tone"] # "tone1"
            => /\ out' = out
               /\ \/ siren_i < TONE1_COUNT /\ pc'["buzzer_tone"] = "sleep_tone1"
                     /\ wake'["buzzer_tone"] = tick + TONE1_DELAY
                  \/ siren_i = TONE1_COUNT /\ pc'["buzzer_tone"] = "sleep_gap1"
                     /\ wake'["buzzer_tone"] = tick + TONE_GAP]_vars
    /\ [][pc["buzzer_tone"] = "tone2" /\ pc'["buzzer_tone"] # "tone2"
            => /\ out' = out
               /\ \/ siren_i < TONE2_COUNT /\ pc'["buzzer_tone"] = "sleep_tone2"
                     /\ wake'["buzzer_tone"] = tick + TONE2_DELAY
                  \/ siren_i = TONE2_COUNT /\ pc'["buzzer_tone"] = "sleep_gap2"
                     /\ wake'["buzzer_tone"] = tick + TONE_GAP]_vars
    /\ [][out'[BUZZER] # out[BUZZER]
            => /\ pc["buzzer_tone"] \in {"sleep_tone1", "sleep_tone2"}
               /\ wake["buzzer_tone"] = tick
               /\ siren_i' = siren_i + 1
               /\ pc'["buzzer_tone"] \in {"tone1", "tone2"}]_vars
    /\ [](InPattern /\ toggles = 0 => out[BUZZER] = levelAtEntry)
    /\ [](InPattern /\ toggles = 0 => tick <= invokedAt + TONE1_DELAY)
    /\ [](InPattern /\ toggles >= 1 => tick >= invokedAt + TONE1_DELAY)

\* The first sleep of the pattern is over and no toggle has been made yet.
C16_Witness ==
    /\ pc["buzzer_tone"] = "sleep_tone1"
    /\ siren_i = 0
    /\ toggles = 0
    /\ tick = invokedAt + TONE1_DELAY
    /\ wake["buzzer_tone"] = tick
    /\ out[BUZZER] = levelAtEntry

\* C17: a run of the handler that finds the bit of line 4 pending and enabled
\* first clears that bit of the pending register and no other bit, then posts
\* the flag once to the button thread and returns.  It makes one post per
\* run, posts only after the clear, and changes nothing else: no log line,
\* no pin, no thread position or delay, no tick, no enable or edge register;
\* and it never waits, each of its steps can be taken at once.
C17_HandlerFrame ==
    /\ [][isr_pc = "check" /\ Bit4(isr_pending) /\ isr_pc' # isr_pc
            => /\ isr_pc' = "post"
               /\ Bit4(GPIO_IF)
               /\ GPIO_IF' + ESWGPIO_EXTI_IF = GPIO_IF
               /\ UNCHANGED <<thread_flags, posts>>]_vars
    /\ [][isr_pc = "post" /\ isr_pc' # isr_pc
            => /\ isr_pc' = "idle"
               /\ buttonThreadId = "button_loop"
               /\ thread_flags' = BitOr(thread_flags, buttonExtIntThreadFlag)
               /\ posts' = posts + 1
               /\ GPIO_IF' = GPIO_IF]_vars
    /\ [][posts' # posts \/ (thread_flags' # thread_flags /\ thread_flags = 0)
            => isr_pc = "post" /\ isr_pc' = "idle"]_vars
    /\ [][isr_pc' # isr_pc
            => UNCHANGED <<tick, pc, wake, mode, out, configured, led_cnt, heartbeats, buttons,
                           GPIO_IEN, EXTIFALL, EXTIRISE, nvicEnabled, buttonThreadId,
                           errLogged, kernelState>>]_vars
    /\ [](isr_pc # "idle" => ENABLED GPIO_EVEN_IRQHandler_steps)

\* The handler has cleared bit 4 and is about to post while the bit of the
\* other line is still pending.
C17_Witness ==
    /\ isr_pc = "post"
    /\ Bit4(isr_pending)
    /\ ~Bit4(GPIO_IF)
    /\ BitAnd(GPIO_IF, OtherExtiIF) # 0
    /\ posts = 0

\* C18: buttonThreadId changes once only, from unset to the id of button_loop,
\* in the step of hp_loop that creates button_loop, while interrupt 4 is
\* still disabled; from the enabling of interrupt 4 on it names the created
\* thread, so every post of the handler addresses button_loop.
C18_HandleWriteOnce ==
    /\ [][buttonThreadId' # buttonThreadId
            => /\ buttonThreadId = "NULL"
               /\ buttonThreadId' = "button_loop"
               /\ pc["hp_loop"] = "osThreadNew_button"
               /\ pc'["hp_loop"] = "enable_IntClear"
               /\ pc["button_loop"] = "none" /\ pc'["button_loop"] # "none"
               /\ ~Bit4(GPIO_IEN) /\ ~nvicEnabled]_vars
    /\ [][pc["hp_loop"] = "osThreadNew_button" /\ pc'["hp_loop"] # pc["hp_loop"]
            => buttonThreadId = "NULL" /\ buttonThreadId' = "button_loop"]_vars
    /\ [](Bit4(GPIO_IEN) => buttonThreadId = "button_loop" /\ pc["button_loop"] # "none")
    /\ [](isr_pc = "post" => buttonThreadId = "button_loop" /\ pc["button_loop"] # "none")

\* The handler is about to post to button_loop, which has been created but
\* has not yet run its first statement.
C18_Witness ==
    /\ isr_pc = "post"
    /\ buttonThreadId = "button_loop"
    /\ pc["button_loop"] = "clear"
    /\ buttons = 0
    /\ posts = 0

\* C19: no notification is lost outside a reaction.  A post that the handler
\* makes after hp_loop has finished gpio_external_interrupt_enable, while
\* button_loop is not executing its reaction (before its first wait, or
\* between the end of a reaction and the next wait), is never discarded by
\* the osThreadFlagsClear at the top of button_loop's loop.
C19_NoLostEdge ==
    [][pc["button_loop"] = "clear" /\ pc'["button_loop"] # "clear" => ~postedIdle]_vars

\* C20: the handoff is causally ordered.  The pending bit of line 4 is set
\* only by a falling edge on the button line; the handler posts only for a
\* pending bit, so it has never posted more often than edges have been made;
\* button_loop wakes only for a post made since its previous wake, so it has
\* never woken more often than the handler has posted.
C20_CausalOrder ==
    /\ [](Wakes <= posts /\ posts <= edges)
    /\ [][Bit4(GPIO_IF') /\ ~Bit4(GPIO_IF)
            => edges' = edges + 1 /\ buttonLevel = 1 /\ buttonLevel' = 0]_vars
    /\ [][posts' # posts
            => /\ posts' = posts + 1
               /\ edges >= posts'
               /\ Bit4(isr_pending)
               /\ Bit4(EXTIFALL) /\ ~Bit4(EXTIRISE)]_vars
    /\ [][Wakes' # Wakes
            => /\ Wakes' = Wakes + 1
               /\ posted >= 1
               /\ FlagPending
               /\ posts >= Wakes']_vars
    /\ [][buttons' # buttons => buttons' = buttons + 1 /\ pc["button_loop"] = "info"]_vars

\* Two presses of the button, two posts, two "Button" lines.
C20_Witness ==
    /\ edges = 2
    /\ posts = 2
    /\ buttons = 2
    /\ pc["button_loop"] = "wait"
    /\ isr_pc = "idle"

====
